---- MODULE Spec2Model ----
(***************************************************************************)
(* Model of docs/conf.py, the Sphinx configuration of godi.                *)
(*                                                                         *)
(* The file is evaluated top to bottom once (pc follows the statements),   *)
(* binding top-level names in `globals`.  Line 33 calls get_version(),     *)
(* which runs `git describe --tags --abbrev=0` through subprocess.run      *)
(* with capture_output=True, text=True.  The outcome of the external       *)
(* command is an input chosen by the environment.  After the file is       *)
(* loaded the generator may call setup(app), and any caller may call       *)
(* get_version() again.                                                    *)
(*                                                                         *)
(* Strings whose content matters (the command's output, the version) are   *)
(* sequences of characters; the other configuration strings are atoms.     *)
(***************************************************************************)
EXTENDS Integers, Sequences, FiniteSets, TLC

VARIABLES pc, globals, procs, lastCall, gvCalls, postCalls, apps, setupCalls, propagated

vars == <<pc, globals, procs, lastCall, gvCalls, postCalls, apps, setupCalls, propagated>>

----------------------------------------------------------------------------
(* Bounds *)

\* longest standard output of the command, in bytes
MaxLen == 2
\* calls of get_version() made after the file is loaded
MaxCalls == 1
\* calls of setup(app) made after the file is loaded
MaxSetupCalls == 2

----------------------------------------------------------------------------
(* Strings *)

LF == "\n"
CR == "\r"
\* a byte that is not valid in the locale encoding (UTF-8)
XFF == "0xFF"

\* the bytes the command may write: a letter, a newline, a carriage return,
\* an undecodable byte
Bytes == {"v", LF, CR, XFF}

ByteStrings == UNION {[1..n -> Bytes] : n \in 0..MaxLen}

\* str.isspace() on the characters of the model
IsSpace(c) == c \in {" ", LF, CR, "\t"}

\* the exit codes the command may end with (git describe: 0, or 128 on failure)
ExitCodes == {0, 128}

\* datetime.now().year at the time the file is evaluated
Years == {2025, 2026}

Apps == {"app1", "app2"}

----------------------------------------------------------------------------
(* Python's exception hierarchy, as far as subprocess.run can raise *)

\* the direct base class of each exception class
Base(cls) ==
    CASE cls = "FileNotFoundError" -> "OSError"
      [] cls = "OSError" -> "Exception"
      [] cls = "UnicodeDecodeError" -> "ValueError"
      [] cls = "ValueError" -> "Exception"
      [] cls = "Exception" -> "BaseException"
      [] cls = "KeyboardInterrupt" -> "BaseException"
      [] OTHER -> "object"

RECURSIVE IsSubclass(_, _)
IsSubclass(cls, of) ==
    IF cls = of THEN TRUE
    ELSE IF cls = "object" THEN FALSE
    ELSE IsSubclass(Base(cls), of)

\* what the environment can make subprocess.run raise by itself: the
\* executable or the working directory is missing (the process never starts),
\* or the Python process is interrupted (SIGINT) while it waits
RaisedByRun == {"FileNotFoundError", "KeyboardInterrupt"}

----------------------------------------------------------------------------
(* The external command and subprocess.run *)

\* what the environment does with one subprocess.run call: it raises, or the
\* command runs to its end with an exit code and the bytes it wrote to stdout
Outcomes ==
    [kind : {"exited"}, exc : {"none"}, returncode : ExitCodes, stdout : ByteStrings]
    \cup
    [kind : {"raised"}, exc : RaisedByRun, returncode : {0}, stdout : {<<>>}]

\* the command line and working directory of the call
GitDescribe == [args |-> <<"git", "describe", "--tags", "--abbrev=0">>, cwd |-> ".."]

\* whether the captured bytes decode in the locale encoding
Decodable(bytes) == \A i \in 1..Len(bytes) : bytes[i] # XFF

\* text mode reads with universal newlines: "\r\n" and then "\r" become "\n"
RECURSIVE TranslateNewlines(_)
TranslateNewlines(s) ==
    IF s = <<>> THEN <<>>
    ELSE IF Head(s) = CR
         THEN IF Len(s) >= 2 /\ s[2] = LF
              THEN <<LF>> \o TranslateNewlines(Tail(Tail(s)))
              ELSE <<LF>> \o TranslateNewlines(Tail(s))
         ELSE <<Head(s)>> \o TranslateNewlines(Tail(s))

\* subprocess.run(..., capture_output=True, text=True): the exception of the
\* environment, or UnicodeDecodeError when the captured bytes do not decode,
\* or the CompletedProcess with the decoded text
subprocess_run(outcome) ==
    IF outcome.kind = "raised"
    THEN [kind |-> "raise", exc |-> outcome.exc, returncode |-> 0, stdout |-> <<>>]
    ELSE IF ~Decodable(outcome.stdout)
    THEN [kind |-> "raise", exc |-> "UnicodeDecodeError", returncode |-> 0, stdout |-> <<>>]
    ELSE [kind |-> "completed", exc |-> "none", returncode |-> outcome.returncode,
          stdout |-> TranslateNewlines(outcome.stdout)]

----------------------------------------------------------------------------
(* str.strip() *)

RECURSIVE lstrip(_)
lstrip(s) ==
    IF s # <<>> /\ IsSpace(Head(s)) THEN lstrip(Tail(s)) ELSE s

RECURSIVE rstrip(_)
rstrip(s) ==
    IF s # <<>> /\ IsSpace(s[Len(s)]) THEN rstrip(SubSeq(s, 1, Len(s) - 1)) ELSE s

strip_leading_only(s) == lstrip(s)

strip(s) == rstrip(lstrip(s))

----------------------------------------------------------------------------
(* get_version() *)

\* the literal of line 30
Fallback == <<"v", "0", ".", "0", ".", "0">>

Return(value, log) == [kind |-> "return", value |-> value, exc |-> "none", procs |-> log]
Raise(exc, log) == [kind |-> "raise", value |-> <<>>, exc |-> exc, procs |-> log]

except_OSError(exc) == IsSubclass(exc, "OSError")

\* the handler of line 28: `except Exception`
except_clause(exc) == IsSubclass(exc, "Exception")

\* a get_version that returns the output whatever the exit code
get_version_ignores_returncode(outcome, log) ==
    LET result == subprocess_run(outcome)
        log1 == Append(log, GitDescribe)
    IN  IF result.kind = "raise"
        THEN IF except_clause(result.exc) THEN Return(Fallback, log1)
             ELSE Raise(result.exc, log1)
        ELSE Return(strip(result.stdout), log1)

\* a get_version that runs the command a second time when it did not succeed
get_version_retries(outcome, log) ==
    LET result == subprocess_run(outcome)
        log1 == Append(log, GitDescribe)
        log2 == Append(log1, GitDescribe)
    IN  IF result.kind = "raise"
        THEN IF except_clause(result.exc) THEN Return(Fallback, log2)
             ELSE Raise(result.exc, log1)
        ELSE IF result.returncode = 0
             THEN Return(strip(result.stdout), log1)
             ELSE Return(Fallback, log2)

\* get_version() with `outcome` the behaviour of the command and `log` the
\* processes invoked so far: what the call returns or raises, and the log
get_version(outcome, log) ==
    LET result == subprocess_run(outcome)
        log1 == Append(log, GitDescribe)
    IN  IF result.kind = "raise"
        THEN IF except_clause(result.exc)
             THEN Return(Fallback, log1)
             ELSE Raise(result.exc, log1)
        ELSE IF result.returncode = 0
             THEN Return(strip(result.stdout), log1)
             ELSE Return(Fallback, log1)

----------------------------------------------------------------------------
(* setup(app) *)

\* app.add_css_file(name): the application appends the name to its stylesheets
add_css_file(app, name) == [app EXCEPT !.css_files = Append(@, name)]

setup_registers_twice(app) ==
    add_css_file(add_css_file(app, "customize.css"), "customize.css")

setup(app) == add_css_file(app, "customize.css")

----------------------------------------------------------------------------
(* The values of the configuration *)

extensions ==
    <<"myst_parser", "sphinx_rtd_theme", "sphinx_favicon", "sphinxext.rediraffe",
      "sphinx_copybutton">>

exclude_patterns == <<"_build", "_venv", "Thumbs.db", ".DS_Store">>

html_theme_options ==
    [logo_only |-> TRUE,
     prev_next_buttons_location |-> "both",
     style_external_links |-> FALSE,
     style_nav_header_background |-> "#2980B9",
     collapse_navigation |-> FALSE,
     sticky_navigation |-> TRUE,
     navigation_depth |-> 4,
     includehidden |-> TRUE,
     titles_only |-> FALSE]

html_context ==
    [display_github |-> TRUE,
     github_user |-> "junioryono",
     github_repo |-> "godi",
     github_version |-> "main",
     conf_py_path |-> "/docs/"]

myst_enable_extensions == <<"attrs_inline", "colon_fence", "deflist", "tasklist">>

\* a table in which one destination is itself a retired path
rediraffe_redirects_chained ==
    ("installation" :> "getting-started/01-installation")
    @@ ("core-concepts" :> "dependency-resolution")
    @@ ("service-lifetimes" :> "concepts/lifetimes")
    @@ ("scopes-isolation" :> "concepts/scopes")
    @@ ("modules" :> "concepts/modules")
    @@ ("keyed-services" :> "features/keyed-services")
    @@ ("service-groups" :> "features/service-groups")
    @@ ("parameter-objects" :> "features/parameter-objects")
    @@ ("result-objects" :> "features/result-objects")
    @@ ("interface-registration" :> "features/interface-binding")
    @@ ("resource-management" :> "features/resource-cleanup")
    @@ ("dependency-resolution" :> "concepts/how-it-works")
    @@ ("service-registration" :> "getting-started/03-adding-services")

rediraffe_redirects ==
    ("installation" :> "getting-started/01-installation")
    @@ ("core-concepts" :> "concepts/how-it-works")
    @@ ("service-lifetimes" :> "concepts/lifetimes")
    @@ ("scopes-isolation" :> "concepts/scopes")
    @@ ("modules" :> "concepts/modules")
    @@ ("keyed-services" :> "features/keyed-services")
    @@ ("service-groups" :> "features/service-groups")
    @@ ("parameter-objects" :> "features/parameter-objects")
    @@ ("result-objects" :> "features/result-objects")
    @@ ("interface-registration" :> "features/interface-binding")
    @@ ("resource-management" :> "features/resource-cleanup")
    @@ ("dependency-resolution" :> "concepts/how-it-works")
    @@ ("service-registration" :> "getting-started/03-adding-services")

----------------------------------------------------------------------------
(* Evaluation of the file *)

\* a top-level assignment: binds or rebinds one name, leaves the others
Assign(g, name, value) ==
    [n \in (DOMAIN g) \cup {name} |-> IF n = name THEN value ELSE g[n]]

Defined(name) == name \in DOMAIN globals

NoOutcome == [kind |-> "none", exc |-> "none", returncode |-> 0, stdout |-> <<>>]
NoCall == [made |-> FALSE, outcome |-> NoOutcome, result |-> Return(<<>>, <<>>)]

Init ==
    /\ pc = "line13"
    /\ globals = <<>>
    /\ procs = <<>>
    /\ lastCall = NoCall
    /\ gvCalls = 0
    /\ postCalls = 0
    /\ apps = [a \in Apps |-> [css_files |-> <<>>]]
    /\ setupCalls = 0
    /\ propagated = "none"

\* lines 13-15: project, author, and copyright = f'{datetime.now().year}, {author}'
ProjectInfo ==
    /\ pc = "line13"
    /\ \E year \in Years :
         globals' = Assign(Assign(Assign(globals, "project", "godi"),
                                  "author", "junioryono"),
                           "copyright", <<year, ", ", "junioryono">>)
    /\ pc' = "line33"
    /\ UNCHANGED <<procs, lastCall, gvCalls, postCalls, apps, setupCalls, propagated>>

\* line 33: release = get_version(); an exception the call lets through ends
\* the evaluation of the file
AssignRelease ==
    /\ pc = "line33"
    /\ \E outcome \in Outcomes :
         LET r == get_version(outcome, procs)
         IN  /\ lastCall' = [made |-> TRUE, outcome |-> outcome, result |-> r]
             /\ procs' = r.procs
             /\ gvCalls' = gvCalls + 1
             /\ IF r.kind = "return"
                THEN /\ globals' = Assign(globals, "release", r.value)
                     /\ pc' = "line34"
                     /\ UNCHANGED propagated
                ELSE /\ pc' = "aborted"
                     /\ propagated' = r.exc
                     /\ UNCHANGED globals
    /\ UNCHANGED <<postCalls, apps, setupCalls>>

AssignVersionFallback ==
    /\ pc = "line34"
    /\ globals' = Assign(globals, "version", Fallback)
    /\ pc' = "line39"
    /\ UNCHANGED <<procs, lastCall, gvCalls, postCalls, apps, setupCalls, propagated>>

\* line 34: version = release
AssignVersion ==
    /\ pc = "line34"
    /\ globals' = Assign(globals, "version", globals["release"])
    /\ pc' = "line39"
    /\ UNCHANGED <<procs, lastCall, gvCalls, postCalls, apps, setupCalls, propagated>>

\* lines 39-52: extensions, templates_path, exclude_patterns
GeneralConfiguration ==
    /\ pc = "line39"
    /\ globals' = Assign(Assign(Assign(globals, "extensions", extensions),
                                "templates_path", <<"_templates">>),
                         "exclude_patterns", exclude_patterns)
    /\ pc' = "line57"
    /\ UNCHANGED <<procs, lastCall, gvCalls, postCalls, apps, setupCalls, propagated>>

\* lines 57-83: the HTML output options
HtmlOptions ==
    /\ pc = "line57"
    /\ globals' = Assign(Assign(Assign(Assign(Assign(globals,
                         "html_theme", "sphinx_rtd_theme"),
                         "html_static_path", <<"_static">>),
                         "html_logo", "_static/logo.png"),
                         "html_theme_options", html_theme_options),
                         "html_context", html_context)
    /\ pc' = "line89"
    /\ UNCHANGED <<procs, lastCall, gvCalls, postCalls, apps, setupCalls, propagated>>

\* lines 89-103: favicons, MyST and copy button options
ExtensionOptions ==
    /\ pc = "line89"
    /\ globals' = Assign(Assign(Assign(Assign(globals,
                         "favicons", <<"favicon.png">>),
                         "myst_enable_extensions", myst_enable_extensions),
                         "copybutton_prompt_text", "$ |>>> |\\.\\.\\. "),
                         "copybutton_prompt_is_regexp", TRUE)
    /\ pc' = "line106"
    /\ UNCHANGED <<procs, lastCall, gvCalls, postCalls, apps, setupCalls, propagated>>

\* lines 106-120: the redirect table; the file is loaded after it
RediraffeRedirects ==
    /\ pc = "line106"
    /\ globals' = Assign(globals, "rediraffe_redirects", rediraffe_redirects)
    /\ pc' = "loaded"
    /\ UNCHANGED <<procs, lastCall, gvCalls, postCalls, apps, setupCalls, propagated>>

----------------------------------------------------------------------------
(* Calls made on the loaded configuration *)

\* a get_version that also stores what it returns in the global `release`
CallGetVersionStoresRelease ==
    /\ pc = "loaded"
    /\ postCalls < MaxCalls
    /\ \E outcome \in Outcomes :
         LET r == get_version(outcome, procs)
         IN  /\ lastCall' = [made |-> TRUE, outcome |-> outcome, result |-> r]
             /\ procs' = r.procs
             /\ globals' = IF r.kind = "return"
                           THEN Assign(globals, "release", r.value)
                           ELSE globals
    /\ gvCalls' = gvCalls + 1
    /\ postCalls' = postCalls + 1
    /\ UNCHANGED <<pc, apps, setupCalls, propagated>>

\* a caller calls get_version(); what it returns or raises goes to the caller
CallGetVersion ==
    /\ pc = "loaded"
    /\ postCalls < MaxCalls
    /\ \E outcome \in Outcomes :
         LET r == get_version(outcome, procs)
         IN  /\ lastCall' = [made |-> TRUE, outcome |-> outcome, result |-> r]
             /\ procs' = r.procs
    /\ gvCalls' = gvCalls + 1
    /\ postCalls' = postCalls + 1
    /\ UNCHANGED <<pc, globals, apps, setupCalls, propagated>>

\* the generator calls setup(app) on one of its application objects
CallSetup ==
    /\ pc = "loaded"
    /\ setupCalls < MaxSetupCalls
    /\ \E a \in Apps : apps' = [apps EXCEPT ![a] = setup(apps[a])]
    /\ setupCalls' = setupCalls + 1
    /\ UNCHANGED <<pc, globals, procs, lastCall, gvCalls, postCalls, propagated>>

Next ==
    \/ ProjectInfo
    \/ AssignRelease
    \/ AssignVersion
    \/ GeneralConfiguration
    \/ HtmlOptions
    \/ ExtensionOptions
    \/ RediraffeRedirects
    \/ CallGetVersion
    \/ CallSetup

Spec == Init /\ [][Next]_vars

----------------------------------------------------------------------------
(* Properties *)

\* whether `r` is `s` without a leading and a trailing run of whitespace, and
\* has no whitespace left at either end
IsTrimOf(r, s) ==
    /\ \E i \in 1..(Len(s) + 1) : \E j \in 0..Len(s) :
         /\ r = SubSeq(s, i, j)
         /\ \A k \in 1..(i - 1) : IsSpace(s[k])
         /\ \A k \in (j + 1)..Len(s) : IsSpace(s[k])
    /\ r # <<>> => ~IsSpace(r[1]) /\ ~IsSpace(r[Len(r)])

ReturnedFallback == lastCall.result.kind = "return" /\ lastCall.result.value = Fallback

\* the command failed: running it raised, or it ended with a non-zero exit code
CommandFailed(o) == o.kind = "raised" \/ (o.kind = "exited" /\ o.returncode # 0)

\* C1 as stated: get_version() returns 'v0.0.0' in every failure case of the
\* command, i.e. whenever running it raises an exception and whenever it ends
\* with a non-zero exit code, whatever it wrote to standard output.
C1_FallbackOnEveryFailure ==
    (lastCall.made /\ CommandFailed(lastCall.outcome)) => ReturnedFallback

\* C1 amended: get_version() returns 'v0.0.0' whenever running the command
\* raises an exception derived from Exception and whenever the command ends
\* with a non-zero exit code, whatever it wrote to standard output; an
\* exception not derived from Exception (KeyboardInterrupt) is raised to the
\* caller and nothing is returned.
C1_FallbackOnFailure ==
    lastCall.made =>
        LET o == lastCall.outcome
        IN  /\ (o.kind = "raised" /\ IsSubclass(o.exc, "Exception")) => ReturnedFallback
            /\ (o.kind = "exited" /\ o.returncode # 0) => ReturnedFallback
            /\ (o.kind = "raised" /\ ~IsSubclass(o.exc, "Exception")) =>
                   (lastCall.result.kind = "raise" /\ lastCall.result.exc = o.exc)

\* a command that wrote a version and ended with exit code 128
C1_Witness ==
    /\ lastCall.made
    /\ lastCall.outcome.kind = "exited"
    /\ lastCall.outcome.returncode = 128
    /\ lastCall.outcome.stdout = <<"v">>
    /\ ReturnedFallback

C3_SuppressesAllExceptions ==
    /\ (lastCall.made /\ subprocess_run(lastCall.outcome).kind = "raise") =>
           lastCall.result.kind = "return"
    /\ pc # "aborted"

\* C3 amended: get_version() suppresses every exception of the process call
\* that is derived from Exception and returns the fallback; only an exception
\* that is not derived from Exception (KeyboardInterrupt) reaches the caller
\* and ends the evaluation of the file.
C3_SuppressesExceptions ==
    /\ lastCall.made =>
         LET run == subprocess_run(lastCall.outcome)
         IN  /\ (run.kind = "raise" /\ IsSubclass(run.exc, "Exception")) => ReturnedFallback
             /\ lastCall.result.kind = "raise" =>
                    (run.kind = "raise" /\ ~IsSubclass(lastCall.result.exc, "Exception"))
    /\ pc = "aborted" => (propagated # "none" /\ ~IsSubclass(propagated, "Exception"))

\* the output of a command that ended with exit code 0 does not decode
C3_Witness ==
    /\ lastCall.made
    /\ lastCall.outcome.kind = "exited"
    /\ lastCall.outcome.returncode = 0
    /\ lastCall.outcome.stdout = <<"v", XFF>>
    /\ subprocess_run(lastCall.outcome).exc = "UnicodeDecodeError"
    /\ ReturnedFallback
    /\ pc = "line34"

\* C4: every call of setup(app) adds exactly the one stylesheet
\* 'customize.css' to the application it is given and registers nothing else.
C4_SetupRegistersOneStylesheet ==
    [][setupCalls' # setupCalls =>
         \E a \in Apps :
            apps' = [apps EXCEPT ![a] = [css_files |-> Append(apps[a].css_files, "customize.css")]]
      ]_vars

\* setup was called twice on the same application
C4_Witness ==
    /\ setupCalls = 2
    /\ apps["app1"].css_files = <<"customize.css", "customize.css">>
    /\ apps["app2"].css_files = <<>>

\* C5: loading the file invokes one process: get_version() is called once at
\* line 33, every call of get_version() invokes the command once, also when it
\* fails, and no other step, setup(app) included, invokes a process.
C5_OneProcessPerCall ==
    /\ Len(procs) = gvCalls
    /\ gvCalls = postCalls + (IF pc \in {"line13", "line33"} THEN 0 ELSE 1)
    /\ \A i \in 1..Len(procs) : procs[i] = GitDescribe

\* the file is loaded after a failed command, and setup has been called
C5_Witness ==
    /\ pc = "loaded"
    /\ postCalls = 0
    /\ setupCalls >= 1
    /\ lastCall.outcome.kind = "exited"
    /\ lastCall.outcome.returncode = 128
    /\ Len(procs) = 1

\* C6: once the file is loaded, version and release are equal, and they are
\* the value the call of get_version() at line 33 returned.
C6_VersionEqualsRelease ==
    pc = "loaded" =>
        /\ Defined("version") /\ Defined("release")
        /\ globals["version"] = globals["release"]
        /\ postCalls = 0 =>
               (lastCall.result.kind = "return" /\ globals["release"] = lastCall.result.value)

\* loaded from a command that succeeded with a version
C6_Witness ==
    /\ pc = "loaded"
    /\ postCalls = 0
    /\ lastCall.outcome.returncode = 0
    /\ lastCall.outcome.stdout = <<LF, "v">>
    /\ globals["version"] = <<"v">>

\* C7: once the file is loaded, no call of get_version() or setup(app)
\* changes a top-level configuration value.
C7_ConfigurationUnchanged ==
    [][pc = "loaded" => globals' = globals]_vars

\* after the load, get_version() returned another value than release holds,
\* and setup was called
C7_Witness ==
    /\ pc = "loaded"
    /\ postCalls >= 1
    /\ setupCalls >= 1
    /\ lastCall.result.kind = "return"
    /\ lastCall.result.value # globals["release"]

\* the number of redirects followed from `path` until a page that is not
\* redirected, at most `fuel`
RECURSIVE Hops(_, _, _)
Hops(table, path, fuel) ==
    IF path \notin DOMAIN table \/ fuel = 0 THEN 0
    ELSE 1 + Hops(table, table[path], fuel - 1)

\* C8: in the redirect table no destination is a source (so no entry maps a
\* path to itself), and following the redirects from any source ends after
\* exactly one hop.
C8_NoRedirectChains ==
    Defined("rediraffe_redirects") =>
        LET table == globals["rediraffe_redirects"]
        IN  \A source \in DOMAIN table :
               /\ table[source] \notin DOMAIN table
               /\ Hops(table, source, Cardinality(DOMAIN table) + 1) = 1

\* the table is loaded, with its two sources that share a destination
C8_Witness ==
    /\ pc = "loaded"
    /\ Cardinality(DOMAIN globals["rediraffe_redirects"]) = 13
    /\ globals["rediraffe_redirects"]["core-concepts"]
         = globals["rediraffe_redirects"]["dependency-resolution"]

====
